---- MODULE Spec2Model ----
(***************************************************************************)
(* simple_caching: a decorator that caches the JSON encoding of a method's *)
(* result in a gzip file named after the method (src/simple_caching.py).   *)
(*                                                                         *)
(* Python strings are sequences of one-character strings.  A Python value  *)
(* is a record [t |-> type name, v |-> sequence of strings]:               *)
(*   str / unicode : v is the characters                                   *)
(*   int, float    : v is <<the numeral>>                                  *)
(*   bool          : v is <<"True">> or <<"False">>                        *)
(*   NoneType      : v is <<>>                                             *)
(*   tuple / list  : v is the elements, "1" or "2" for an int, "@" for an  *)
(*                   element json cannot encode (a set)                    *)
(*   set           : a value json cannot encode                            *)
(*   object        : an instance without a cachedir attribute              *)
(*   holder        : an instance whose cachedir attribute is the str v     *)
(*   absent        : no value (a keyword that was not passed)              *)
(*   an exception  : t is the exception's class                            *)
(***************************************************************************)
EXTENDS Integers, Sequences, FiniteSets, TLC

VARIABLES fs,        \* the files on disk: absolute path -> JSON text in the gzip
          stored,    \* history: path -> the call that created the file
          failed,    \* history: paths whose method raised, no file created since
          dictorder, \* the order in which this build iterates kwargs; <<>>
                     \* until a call has iterated a dict of several keys
          last,      \* the latest call of a decorated method and what it did
          ncalls,    \* the number of calls made so far
          th         \* thread -> where its call of method_wrapper stands

vars == <<fs, stored, failed, dictorder, last, ncalls, th>>

\* The number of calls of decorated methods in one run.
MaxCalls == 2

\* The number of threads of the host that call decorated methods.
NThreads == 2

-----------------------------------------------------------------------------
(* Python values *)

Py(t, v) == [t |-> t, v |-> v]
None == Py("NoneType", <<>>)
Absent == Py("absent", <<>>)
Str(s) == Py("str", s)
True == Py("bool", <<"True">>)
False == Py("bool", <<"False">>)
Exc(name) == Py(name, <<>>)

\* Python truth value testing, as `not x` and `x and y` use it.
Truthy(x) ==
    CASE x.t \in {"NoneType", "absent"} -> FALSE
      [] x.t = "bool" -> x = True
      [] x.t = "int" -> x.v # <<"0">>
      [] x.t \in {"str", "unicode", "tuple", "list"} -> x.v # <<>>
      [] OTHER -> TRUE

\* Python ==: a str and the unicode of the same characters are equal, a
\* tuple and a list never are.
PyEq(x, y) ==
    \/ x = y
    \/ {x.t, y.t} = {"str", "unicode"} /\ x.v = y.v

\* string.punctuation, restricted to the characters of the model.
punctuation == {"_", ".", "/", "-"}

RECURSIVE Join(_, _)
\* sep.join(strs) for a sequence of character sequences.
Join(sep, strs) ==
    IF strs = <<>> THEN <<>>
    ELSE IF Len(strs) = 1 THEN strs[1]
    ELSE strs[1] \o sep \o Join(sep, Tail(strs))

-----------------------------------------------------------------------------
(* the file system, as os.path and gzip.open see it *)

\* os.getcwd(): the process runs in the root directory.
getcwd == <<"/">>

\* The directories that exist; the decorator never creates one.
Dirs == {<<"/">>, <<"/", "d">>}

IsAbs(p) == p # <<>> /\ p[1] = "/"

\* os.path.join(a, b)
join(a, b) ==
    IF IsAbs(b) THEN b
    ELSE IF a = <<>> \/ a[Len(a)] = "/" THEN a \o b
    ELSE a \o <<"/">> \o b

\* The file a path names: relative paths are resolved against getcwd.
Abs(p) == IF IsAbs(p) THEN p ELSE join(getcwd, p)

\* The positions of "/" in p.
Slashes(p) == {i \in 1..Len(p) : p[i] = "/"}

Max(S) == CHOOSE i \in S : \A j \in S : j <= i

\* os.path.dirname of an absolute path.
dirname(p) ==
    LET k == Max(Slashes(p))
    IN IF k = 1 THEN <<"/">> ELSE SubSeq(p, 1, k - 1)

\* os.path.exists(p) on the files `files`.
exists(files, p) == Abs(p) \in Dirs \/ Abs(p) \in DOMAIN files

\* open(p, 'wb') succeeds when p's directory exists and p is no directory.
CanCreate(p) == dirname(Abs(p)) \in Dirs /\ Abs(p) \notin Dirs

\* The files after `text` was written to p (created or truncated).
WriteFile(files, p, text) ==
    [q \in DOMAIN files \cup {Abs(p)} |-> IF q = Abs(p) THEN text ELSE files[q]]

-----------------------------------------------------------------------------
(* json.dump and json.loads; a JSON text is a sequence of tokens *)

Digits == {"0", "1", "2"}

\* The elements json can encode (ints); "@" stands for one it cannot.
Encodable(e) == e \in Digits

\* The index of the first element of elems json cannot encode, or Len + 1.
FirstBad(elems) ==
    IF \A i \in 1..Len(elems) : Encodable(elems[i]) THEN Len(elems) + 1
    ELSE CHOOSE i \in 1..Len(elems) :
             /\ ~Encodable(elems[i])
             /\ \A j \in 1..(i - 1) : Encodable(elems[j])

\* Whether json.dump(x, fp) completes; otherwise it raises TypeError.
Serializable(x) ==
    \/ x.t \in {"NoneType", "bool", "int", "str", "unicode"}
    \/ x.t \in {"list", "tuple"} /\ FirstBad(x.v) = Len(x.v) + 1

\* elems[1..n] as singleton token sequences.
Elems(elems, n) == [i \in 1..n |-> <<elems[i]>>]

\* What json.dump(x, fp) has written to fp when it returns or raises: the
\* chunks of JSONEncoder.iterencode up to the first element it cannot encode.
Dumped(x) ==
    CASE x.t = "NoneType" -> <<"null">>
      [] x.t = "bool" -> IF x = True THEN <<"true">> ELSE <<"false">>
      [] x.t = "int" -> x.v
      [] x.t \in {"str", "unicode"} -> <<"\"">> \o x.v \o <<"\"">>
      [] x.t \in {"list", "tuple"} ->
            LET k == FirstBad(x.v)
            IN IF k = Len(x.v) + 1
               THEN <<"[">> \o Join(<<",">>, Elems(x.v, Len(x.v))) \o <<"]">>
               ELSE <<"[">> \o Join(<<",">>, Elems(x.v, k - 1))
                       \o (IF k > 1 THEN <<",">> ELSE <<>>)
      [] OTHER -> <<>>

\* The elements of a well-formed array body d1,d2,...; used by loads.
ArrayBody(b) ==
    /\ Len(b) % 2 = 1
    /\ \A i \in 1..Len(b) : IF i % 2 = 1 THEN b[i] \in Digits ELSE b[i] = ","

\* json.loads(text): the decoded value, or the ValueError it raises.
loads(text) ==
    LET n == Len(text)
    IN CASE text = <<"null">> -> None
         [] text = <<"true">> -> True
         [] text = <<"false">> -> False
         [] n = 1 /\ text[1] \in Digits -> Py("int", text)
         [] n >= 2 /\ text[1] = "\"" /\ text[n] = "\""
              /\ (\A i \in 2..(n - 1) : text[i] # "\"") ->
                Py("unicode", SubSeq(text, 2, n - 1))
         [] n >= 2 /\ text[1] = "[" /\ text[n] = "]"
              /\ (n = 2 \/ ArrayBody(SubSeq(text, 2, n - 1))) ->
                Py("list", [i \in 1..((n - 1) \div 2) |-> text[2 * i]])
         [] OTHER -> Exc("ValueError")

-----------------------------------------------------------------------------
(* method_wrapper: configuration *)

\* The keyword names a call may pass: the decorator's three and one of the
\* method's own.
KwNames == {"cachedir", "cache_comment", "autodetect", "k"}

\* kwargs.pop(key, default): the value, and the dict afterwards.
popvalue(kwargs, key, default) ==
    IF kwargs[key] = Absent THEN default ELSE kwargs[key]

popped(kwargs, key) == [kwargs EXCEPT ![key] = Absent]

\* Lines 70-76: whether the cachedir keyword is popped from kwargs: only
\* when none is bound at decoration and args[0] has no cachedir attribute.
PopsCachedir(local_cachedir, args) ==
    ~Truthy(local_cachedir) /\ args # <<>> /\ args[1].t # "holder"

\* Lines 70-76: the cache directory, or the IndexError of args[0].
cachedir_of(local_cachedir, args, kwargs) ==
    IF ~Truthy(local_cachedir)
    THEN IF args = <<>> THEN Exc("IndexError")
         ELSE IF args[1].t = "holder" THEN Str(args[1].v)
         ELSE popvalue(kwargs, "cachedir", None)
    ELSE local_cachedir

\* Lines 83-86: the comment before autodetection.
cache_comment_of(local_cachedir, local_cache_comment, kwargs) ==
    IF ~Truthy(local_cache_comment)
    THEN popvalue(kwargs, "cache_comment", Str(<<>>))
    ELSE local_cachedir

\* autodetect that is on for every call.
autodetect_on(local_autodetect, kwargs) == True

\* Lines 88-91.
autodetect_of(local_autodetect, kwargs) ==
    IF ~Truthy(local_autodetect)
    THEN popvalue(kwargs, "autodetect", False)
    ELSE local_autodetect

\* kwargs as method_wrapper holds it after lines 70-91.
kwargs_after(decor, args, kwargs) ==
    LET k1 == IF PopsCachedir(decor.cachedir, args)
              THEN popped(kwargs, "cachedir") ELSE kwargs
        k2 == IF ~Truthy(decor.cache_comment)
              THEN popped(k1, "cache_comment") ELSE k1
    IN IF ~Truthy(decor.autodetect) THEN popped(k2, "autodetect") ELSE k2

\* Line 93: the str positional arguments (type(a) is str).
StrArgs(args) ==
    LET sel == SelectSeq(args, LAMBDA a : a.t = "str")
    IN [i \in 1..Len(sel) |-> sel[i].v]

\* Lines 94-96: the test is on the type of the key kwa, and a key of
\* **kwargs is a str: every value still in kwargs is listed, in dict order.
KwValues(kwargs, order) ==
    LET keys == SelectSeq(order, LAMBDA kwa : kwargs[kwa] # Absent)
    IN [i \in 1..Len(keys) |-> kwargs[keys[i]]]

\* Lines 92-96: the comment after autodetection, or the TypeError of
\* None += str and of "_".join over a value that is no string.
autodetected(cache_comment, args, kwargs, order) ==
    LET vals == KwValues(kwargs, order)
    IN IF cache_comment.t \notin {"str", "unicode"} THEN Exc("TypeError")
       ELSE IF \E i \in 1..Len(vals) : vals[i].t \notin {"str", "unicode"}
       THEN Exc("TypeError")
       ELSE Str(cache_comment.v \o Join(<<"_">>, StrArgs(args))
                    \o Join(<<"_">>, [i \in 1..Len(vals) |-> vals[i].v]))

-----------------------------------------------------------------------------
(* method_wrapper: the cache file *)

\* Lines 98-99: the directory after the retry under os.getcwd().
validated(files, cachedir) ==
    IF exists(files, cachedir) THEN cachedir ELSE join(getcwd, cachedir)

RECURSIVE lstrip(_)
\* Lines 113-114.
lstrip(s) == IF s # <<>> /\ s[1] \in punctuation THEN lstrip(Tail(s)) ELSE s

RECURSIVE rstrip(_)
\* Lines 115-116.
rstrip(s) ==
    IF s # <<>> /\ s[Len(s)] \in punctuation
    THEN rstrip(SubSeq(s, 1, Len(s) - 1)) ELSE s

suffix == <<".", "c", "a", "c", "h", "e", ".", "g", "z">>

\* Lines 108-116: the suffix is part of the name that is stripped.
cachename_of(name, cache_comment) ==
    rstrip(lstrip(name
                  \o (IF Truthy(cache_comment) THEN <<"_">> \o cache_comment.v
                      ELSE <<>>)
                  \o suffix))

-----------------------------------------------------------------------------
(* method_wrapper: one call *)

Return(v) == [kind |-> "return", val |-> v]
Raise(e) == [kind |-> "raise", val |-> e]

NoKwargs == [k \in KwNames |-> Absent]

\* What one call did: where it ended (branch), what the caller got (out),
\* the files afterwards, how often the method was invoked and with which
\* keywords (fwd), the comment it put in the file name and the cache file
\* of the call (cachename, cachepath; empty when the call ended before
\* line 117).
Result(branch, out, files, invoked, fwd, comment, cachename, cachepath) ==
    [branch |-> branch, out |-> out, files |-> files, invoked |-> invoked,
     fwd |-> fwd, comment |-> comment, cachename |-> cachename,
     cachepath |-> cachepath]

\* load that removes a file it cannot decode before raising.
load_discards_corrupt(files, comment, cachename, cachepath) ==
    LET p == Abs(cachepath)
        v == IF p \in DOMAIN files THEN loads(files[p]) ELSE Exc("IOError")
    IN Result("hit",
              IF v.t \in {"ValueError", "IOError"} THEN Raise(v) ELSE Return(v),
              IF v.t = "ValueError"
              THEN [q \in DOMAIN files \ {p} |-> files[q]] ELSE files,
              0, NoKwargs, comment, cachename, cachepath)

\* Lines 120-122: the file exists; it is read and decoded.
load(files, comment, cachename, cachepath) ==
    LET out == IF Abs(cachepath) \notin DOMAIN files
               THEN Raise(Exc("IOError"))
               ELSE LET v == loads(files[Abs(cachepath)])
                    IN IF v.t = "ValueError" THEN Raise(v) ELSE Return(v)
    IN Result("hit", out, files, 0, NoKwargs, comment, cachename, cachepath)

\* generate with the file opened before the method is invoked.
generate_opens_first(files, kwargs, fout, comment, cachename, cachepath) ==
    IF ~CanCreate(cachepath)
    THEN Result("miss", Raise(Exc("IOError")), files, 0, NoKwargs, comment,
                cachename, cachepath)
    ELSE IF fout.kind = "raise"
    THEN Result("miss", fout, WriteFile(files, cachepath, <<>>), 1, kwargs,
                comment, cachename, cachepath)
    ELSE Result("miss",
                IF Serializable(fout.val) THEN fout
                ELSE Raise(Exc("TypeError")),
                WriteFile(files, cachepath, Dumped(fout.val)),
                1, kwargs, comment, cachename, cachepath)

\* Lines 123-128: the method is invoked (fout is what it does), then the
\* file is opened for writing, which creates it, and the result is dumped.
generate(files, kwargs, fout, comment, cachename, cachepath) ==
    IF fout.kind = "raise"
    THEN Result("miss", fout, files, 1, kwargs, comment, cachename, cachepath)
    ELSE IF ~CanCreate(cachepath)
    THEN Result("miss", Raise(Exc("IOError")), files, 1, kwargs, comment,
                cachename, cachepath)
    ELSE Result("miss",
                IF Serializable(fout.val) THEN fout
                ELSE Raise(Exc("TypeError")),
                WriteFile(files, cachepath, Dumped(fout.val)),
                1, kwargs, comment, cachename, cachepath)

\* cached without the test of line 120: every call generates.
cached_regenerates(name, cachedir, cache_comment, kwargs, fout, files) ==
    LET dir == validated(files, cachedir.v)
        cachename == cachename_of(name, cache_comment)
        cachepath == join(dir, cachename)
    IN IF ~exists(files, dir)
       THEN Result("fatal", Raise(Exc("NameError")), files, 0, NoKwargs,
                   cache_comment, <<>>, <<>>)
       ELSE generate(files, kwargs, fout, cache_comment, cachename, cachepath)

\* Lines 98-128, with the configuration resolved.
cached(name, cachedir, cache_comment, kwargs, fout, files) ==
    LET dir == validated(files, cachedir.v)
        cachename == cachename_of(name, cache_comment)
        cachepath == join(dir, cachename)
    IN IF ~exists(files, dir)
       THEN \* line 101: the module never binds the name sys
            Result("fatal", Raise(Exc("NameError")), files, 0, NoKwargs,
                   cache_comment, <<>>, <<>>)
       ELSE IF exists(files, cachepath)
       THEN load(files, cache_comment, cachename, cachepath)
       ELSE generate(files, kwargs, fout, cache_comment, cachename, cachepath)

\* method_wrapper(*args, **kwargs) of simple_caching(**decor)(method), where
\* method.__name__ is name and method does fout when invoked.
method_wrapper(decor, name, args, kwargs, fout, files, order) ==
    LET cachedir == cachedir_of(decor.cachedir, args, kwargs)
        kw1 == IF PopsCachedir(decor.cachedir, args)
               THEN popped(kwargs, "cachedir") ELSE kwargs
        kw == kwargs_after(decor, args, kwargs)
        comment0 == cache_comment_of(decor.cachedir, decor.cache_comment, kw1)
        autodetect == autodetect_of(decor.autodetect, kw1)
        comment == IF Truthy(autodetect)
                   THEN autodetected(comment0, args, kw, order)
                   ELSE comment0
    IN IF cachedir.t = "IndexError"
       THEN Result("index", Raise(cachedir), files, 0, NoKwargs, None,
                   <<>>, <<>>)
       ELSE IF ~Truthy(cachedir)
       THEN Result("bypass", fout, files, 1, kw1, None, <<>>, <<>>)
       ELSE IF comment.t = "TypeError"
       THEN Result("autodetect", Raise(comment), files, 0, NoKwargs, None,
                   <<>>, <<>>)
       ELSE cached(name, cachedir, comment, kw, fout, files)

-----------------------------------------------------------------------------
(* the state machine: a host program calls decorated methods *)

Decor(cachedir, cache_comment, autodetect) ==
    [cachedir |-> cachedir, cache_comment |-> cache_comment,
     autodetect |-> autodetect]

Kw(cachedir, cache_comment, autodetect, k) ==
    [n \in KwNames |->
        CASE n = "cachedir" -> cachedir
          [] n = "cache_comment" -> cache_comment
          [] n = "autodetect" -> autodetect
          [] OTHER -> k]

\* The order used where no dict of several keys is iterated.
SomeOrder == <<"cachedir", "cache_comment", "autodetect", "k">>

\* The orders in which a build may iterate kwargs: an order and its
\* reverse, so that any two keys come in both orders.
Orders == {SomeOrder, [i \in 1..4 |-> SomeOrder[5 - i]]}

Threads == 1..NThreads

\* A thread that is not in a call: pc is the line of method_wrapper the
\* thread is at, path the cache file of its call, fout what its method
\* does, k the number of chunks json.dump has written, out what the caller
\* got, invoked how often the method ran; raced and seen are history: the
\* thread read the file while another had it open for writing, and the
\* text that was in the file then.
Idle ==
    [pc |-> "idle", path |-> <<>>, fout |-> Return(None), k |-> 0,
     out |-> Return(None), invoked |-> 0, raced |-> FALSE, seen |-> <<>>]

NoCall ==
    [decor |-> Decor(None, None, False), name |-> <<>>, args |-> <<>>,
     kwargs |-> NoKwargs, fout |-> Return(None)]

Init ==
    /\ fs = <<>>
    /\ stored = <<>>
    /\ failed = {}
    /\ dictorder = <<>>
    /\ last = [call |-> NoCall, branch |-> "none", out |-> Return(None),
               invoked |-> 0, fwd |-> NoKwargs, comment |-> None,
               cachename |-> <<>>,
               cachepath |-> <<>>, prefailed |-> FALSE]
    /\ ncalls = 0
    /\ th = [t \in Threads |-> Idle]

\* Whether lines 94-96 iterate a dict of two or more keys, so that the
\* order of iteration shows in the comment.
IteratesKwargs(decor, args, kwargs) ==
    LET cachedir == cachedir_of(decor.cachedir, args, kwargs)
        kw == kwargs_after(decor, args, kwargs)
        kw1 == IF PopsCachedir(decor.cachedir, args)
               THEN popped(kwargs, "cachedir") ELSE kwargs
    IN /\ cachedir.t # "IndexError"
       /\ Truthy(cachedir)
       /\ Truthy(autodetect_of(decor.autodetect, kw1))
       /\ Cardinality({n \in KwNames : kw[n] # Absent}) >= 2

\* The order lines 94-96 iterate in: the one this build has shown before,
\* any order on the first iteration.
OrdersNow(decor, args, kwargs) ==
    IF dictorder # <<>> THEN {dictorder}
    ELSE IF IteratesKwargs(decor, args, kwargs) THEN Orders
    ELSE {SomeOrder}

\* The host calls simple_caching(**decor)(method)(*args, **kwargs), where
\* method is named name and does fout when invoked.
Call(decor, name, args, kwargs, fout) ==
    \E order \in OrdersNow(decor, args, kwargs) :
        LET r == method_wrapper(decor, name, args, kwargs, fout, fs, order)
            p == Abs(r.cachepath)
            call == [decor |-> decor, name |-> name, args |-> args,
                     kwargs |-> kwargs, fout |-> fout]
        IN /\ ncalls < MaxCalls
           /\ ncalls' = ncalls + 1
           /\ fs' = r.files
           /\ last' = [call |-> call, branch |-> r.branch, out |-> r.out,
                       invoked |-> r.invoked, fwd |-> r.fwd,
                       comment |-> r.comment, cachename |-> r.cachename, cachepath |-> r.cachepath,
                       prefailed |-> r.cachepath # <<>> /\ p \in failed]
           /\ stored' = [q \in DOMAIN r.files |->
                            IF q \in DOMAIN fs THEN stored[q]
                            ELSE [call |-> call, out |-> r.out]]
           /\ failed' = IF r.branch = "miss" /\ r.out = fout
                           /\ fout.kind = "raise"
                        THEN failed \cup {p}
                        ELSE failed \ DOMAIN r.files
           /\ dictorder' = IF IteratesKwargs(decor, args, kwargs)
                           THEN order ELSE dictorder
           /\ UNCHANGED th

s_a == <<"a">>
s_b == <<"b">>
s_d == <<"d">>
s_x == <<"x">>
s_f == <<"f">>

PyInt(d) == Py("int", <<d>>)
Boom == Exc("Boom")

\* The calls of the host program of Spec.
Decors ==
    {Decor(None, None, False), Decor(Str(<<"/">> \o s_d), Str(s_a), False),
     Decor(Str(s_d), None, True)}
Names == {s_f}
ArgLists == {<<>>, <<Str(s_a)>>}
KwDicts ==
    {NoKwargs, Kw(Str(s_d), Absent, Absent, Absent),
     Kw(Str(s_x), Absent, Absent, Absent),
     Kw(Absent, Str(s_b), Absent, Absent),
     Kw(Absent, Absent, Absent, PyInt("1"))}
FOuts ==
    {Return(PyInt("1")), Return(Py("tuple", <<"1", "2">>)),
     Return(Py("list", <<"1", "@">>)), Raise(Boom)}

Next ==
    \E decor \in Decors, name \in Names, args \in ArgLists,
       kwargs \in KwDicts, fout \in FOuts :
        Call(decor, name, args, kwargs, fout)

Spec == Init /\ [][Next]_vars

s_call == <<"_", "_", "c", "a", "l", "l", "_", "_">>

\* The calls of a host that varies names and comments (SpecNaming).
NamingDecors ==
    {Decor(cd, cc, False) :
        cd \in {None, Str(s_d)}, cc \in {None, Str(s_a), Str(s_b)}}
NamingNames == {s_f, s_call}
NamingKwDicts ==
    {Kw(cd, cc, Absent, Absent) :
        cd \in {Absent, Str(s_d)}, cc \in {Absent, Str(s_a), Str(s_b)}}
NamingFOuts == {Return(PyInt("1")), Return(PyInt("2"))}

NextNaming ==
    \E decor \in NamingDecors, name \in NamingNames, kwargs \in NamingKwDicts,
       fout \in NamingFOuts :
        Call(decor, name, <<Str(s_a)>>, kwargs, fout)

SpecNaming == Init /\ [][NextNaming]_vars

\* The calls of a host that varies the arguments autodetection reads
\* (SpecAuto).
AutoDecors == {Decor(Str(s_d), None, True), Decor(Str(s_d), None, False)}
AutoArgLists ==
    {<<>>, <<Str(s_a)>>, <<Str(s_a), Str(s_b)>>, <<Str(<<"a", "_", "b">>)>>,
     <<True>>, <<False>>}
AutoKwDicts ==
    {Kw(Absent, Absent, ad, k) :
        ad \in {Absent, True},
        k \in {Absent, Str(s_b), PyInt("1"), PyInt("2"),
               Py("float", <<"1.5">>), True, False}}
      \cup {Kw(Str(s_d), Absent, True, Str(s_b))}

NextAuto ==
    \E decor \in AutoDecors, args \in AutoArgLists, kwargs \in AutoKwDicts,
       fout \in NamingFOuts :
        Call(decor, s_f, args, kwargs, fout)

SpecAuto == Init /\ [][NextAuto]_vars

\* The calls of a host that varies the arguments and the method behind one
\* name while the cache directory and the comment stay the same (SpecKeys).
KeyDecors == {Decor(Str(s_d), None, False), Decor(None, None, False)}
KeyArgLists == {<<>>, <<Str(s_a)>>, <<Str(s_b)>>}
KeyKwDicts ==
    {NoKwargs, Kw(Str(s_d), Absent, Absent, Absent),
     Kw(Absent, Str(s_a), Absent, Absent),
     Kw(Absent, Absent, Absent, PyInt("1"))}
KeyFOuts ==
    {Return(PyInt("1")), Return(PyInt("2")),
     Return(Py("tuple", <<"1", "2">>)), Return(Py("list", <<"1", "@">>))}

NextKeys ==
    \E decor \in KeyDecors, args \in KeyArgLists, kwargs \in KeyKwDicts,
       fout \in KeyFOuts :
        Call(decor, s_f, args, kwargs, fout)

SpecKeys == Init /\ [][NextKeys]_vars

-----------------------------------------------------------------------------
(* method_wrapper called from several threads: lines 120-128 step by step *)

\* The text of a file after chunk was written at offset k by a writer that
\* has its own file position; a gap left by another writer's truncation
\* reads as NUL.
WriteAt(text, k, chunk) ==
    [i \in 1..Max({Len(text), k + 1}) |->
        IF i = k + 1 THEN chunk
        ELSE IF i <= Len(text) THEN text[i] ELSE "NUL"]

\* Another thread than t has the file of t's call open for writing.
OpenElsewhere(t) ==
    \E w \in Threads \ {t} :
        th[w].pc \in {"dump", "close"} /\ Abs(th[w].path) = Abs(th[t].path)

\* A read that decodes whatever text is in the file, closed or not.
read_ignores_close(text) ==
    LET v == loads(text)
    IN {IF v.t = "ValueError" THEN Raise(v) ELSE Return(v)}

\* Lines 121-122 on a file a writer has not closed: what gzip's read and
\* json.loads can do with a stream that has no trailer yet. With nothing
\* flushed to the file, read() returns '' and json.loads raises ValueError;
\* with part of the stream flushed, read() raises IOError.
read_unclosed(text) ==
    IF text = <<>> THEN {Raise(Exc("ValueError"))}
    ELSE {Raise(Exc("ValueError")), Raise(Exc("IOError"))}

\* Lines 65-117: thread t enters method_wrapper; the options are resolved
\* and the cache file is named (no shared state is touched but the
\* directory test of line 98).
Enter(t, decor, name, args, kwargs, fout) ==
    LET r == method_wrapper(decor, name, args, kwargs, fout, fs, SomeOrder)
    IN /\ th[t].pc \in {"idle", "done"}
       /\ ncalls < MaxCalls
       /\ r.cachepath # <<>>
       /\ ncalls' = ncalls + 1
       /\ th' = [th EXCEPT ![t] = [Idle EXCEPT !.pc = "test",
                                               !.path = r.cachepath,
                                               !.fout = fout]]
       /\ UNCHANGED <<fs, stored, failed, dictorder, last>>

\* Line 120: os.path.exists(cachepath).
Test(t) ==
    /\ th[t].pc = "test"
    /\ th' = [th EXCEPT ![t].pc = IF exists(fs, th[t].path) THEN "load"
                                  ELSE "invoke"]
    /\ UNCHANGED <<fs, stored, failed, dictorder, last, ncalls>>

\* Lines 121-122: the file is opened, read and decoded.
Load(t) ==
    LET p == Abs(th[t].path)
        text == IF p \in DOMAIN fs THEN fs[p] ELSE <<>>
        outs == IF OpenElsewhere(t) THEN read_unclosed(text)
                ELSE {load(fs, None, <<>>, th[t].path).out}
    IN /\ th[t].pc = "load"
       /\ \E o \in outs :
             th' = [th EXCEPT ![t].pc = "done", ![t].out = o,
                              ![t].raced = OpenElsewhere(t),
                              ![t].seen = text]
       /\ UNCHANGED <<fs, stored, failed, dictorder, last, ncalls>>

\* Line 125: the method is invoked; its exception ends the call.
Invoke(t) ==
    /\ th[t].pc = "invoke"
    /\ th' = IF th[t].fout.kind = "raise"
             THEN [th EXCEPT ![t].pc = "done", ![t].invoked = 1,
                             ![t].out = th[t].fout]
             ELSE [th EXCEPT ![t].pc = "open", ![t].invoked = 1]
    /\ UNCHANGED <<fs, stored, failed, dictorder, last, ncalls>>

\* Line 126: gzip.open(cachepath, mode='w') creates or truncates the file.
Open(t) ==
    /\ th[t].pc = "open"
    /\ IF CanCreate(th[t].path)
       THEN /\ fs' = WriteFile(fs, th[t].path, <<>>)
            /\ th' = [th EXCEPT ![t].pc = "dump", ![t].k = 0]
       ELSE /\ fs' = fs
            /\ th' = [th EXCEPT ![t].pc = "done",
                                ![t].out = Raise(Exc("IOError"))]
    /\ UNCHANGED <<stored, failed, dictorder, last, ncalls>>

\* Line 127: json.dump writes the next chunk of the encoding, or is through
\* (it has written everything, or met an element it cannot encode).
Dump(t) ==
    LET p == Abs(th[t].path)
        text == Dumped(th[t].fout.val)
        k == th[t].k
    IN /\ th[t].pc = "dump"
       /\ IF k < Len(text)
          THEN /\ fs' = [fs EXCEPT ![p] = WriteAt(@, k, text[k + 1])]
               /\ th' = [th EXCEPT ![t].k = k + 1]
          ELSE /\ fs' = fs
               /\ th' = [th EXCEPT ![t].pc = "close"]
       /\ UNCHANGED <<stored, failed, dictorder, last, ncalls>>

\* Lines 126-128: the with statement closes the file; the call returns the
\* result, or raises the TypeError of json.dump.
Close(t) ==
    /\ th[t].pc = "close"
    /\ th' = [th EXCEPT ![t].pc = "done",
                        ![t].out = IF Serializable(th[t].fout.val)
                                   THEN th[t].fout
                                   ELSE Raise(Exc("TypeError"))]
    /\ UNCHANGED <<fs, stored, failed, dictorder, last, ncalls>>

\* The calls the threads make (SpecThreads): one method, with or without a
\* comment, so that two calls have the same cache file or different ones.
ThreadDecor == Decor(Str(s_d), None, False)
ThreadKwDicts == {NoKwargs, Kw(Absent, Str(s_a), Absent, Absent)}
ThreadFOuts ==
    {Return(PyInt("1")), Return(Py("tuple", <<"1", "2">>)),
     Return(Py("list", <<"1", "@">>)), Raise(Boom)}

NextThreads ==
    \E t \in Threads :
        \/ \E kwargs \in ThreadKwDicts, fout \in ThreadFOuts :
              Enter(t, ThreadDecor, s_f, <<>>, kwargs, fout)
        \/ Test(t)
        \/ Load(t)
        \/ Invoke(t)
        \/ Open(t)
        \/ Dump(t)
        \/ Close(t)

SpecThreads == Init /\ [][NextThreads]_vars

-----------------------------------------------------------------------------
(* properties of the calls *)

\* The cache file of the latest call, as a key of fs.
LastPath == Abs(last.cachepath)

\* What the documentation says a call is configured with: the value bound
\* at decoration if there is one, otherwise the cachedir attribute of the
\* first argument (for the directory) or the keyword of the call.
DocumentedDir(c) ==
    IF Truthy(c.decor.cachedir) THEN c.decor.cachedir
    ELSE IF c.args # <<>> /\ c.args[1].t = "holder" THEN Str(c.args[1].v)
    ELSE popvalue(c.kwargs, "cachedir", None)

DocumentedComment(c) ==
    IF Truthy(c.decor.cache_comment) THEN c.decor.cache_comment
    ELSE popvalue(c.kwargs, "cache_comment", Str(<<>>))

DocumentedAutodetect(c) ==
    Truthy(c.decor.autodetect)
        \/ Truthy(popvalue(c.kwargs, "autodetect", False))

\* The call was given a cache directory that exists.
ValidDir(c) == Truthy(DocumentedDir(c)) /\ Abs(DocumentedDir(c).v) \in Dirs

\* The same decorated method called with the same arguments.
SameCall(c1, c2) ==
    /\ c1.decor = c2.decor
    /\ c1.name = c2.name
    /\ c1.args = c2.args
    /\ c1.kwargs = c2.kwargs

\* C1: a call with a valid cache directory whose method returns a value
\* json can encode either finds no file, and then invokes the method once,
\* returns its result and leaves the cache file; or is served, without an
\* invocation, the value the same call returned when it created the file.
C1_WriteThenRead ==
    LET c == last.call
    IN (last.branch # "none" /\ ValidDir(c) /\ c.fout.kind = "return"
            /\ Serializable(c.fout.val)) =>
          /\ last.branch \in {"hit", "miss"}
          /\ last.branch = "miss" =>
                /\ last.invoked = 1
                /\ last.out = c.fout
                /\ LastPath \in DOMAIN fs
          /\ (/\ last.branch = "hit"
              /\ SameCall(stored[LastPath].call, c)
              /\ stored[LastPath].out.kind = "return") =>
                /\ last.invoked = 0
                /\ last.out.kind = "return"
                /\ PyEq(last.out.val, stored[LastPath].out.val)

\* C2: a call for which no cache directory resolves (none bound at
\* decoration, no cachedir attribute on a first argument, no cachedir
\* keyword) gives the caller exactly what the method does with the same
\* arguments, after one invocation, creates no file and does not take the
\* fatal path.
C2_CacheBypass ==
    LET c == last.call
    IN (/\ last.branch # "none"
        /\ ~Truthy(c.decor.cachedir)
        /\ (c.args = <<>> \/ c.args[1].t # "holder")
        /\ c.kwargs["cachedir"] = Absent) =>
          /\ last.out = c.fout
          /\ last.invoked = 1
          /\ last.fwd = c.kwargs
          /\ last.branch # "fatal"
          /\ \A p \in DOMAIN stored : stored[p].call # c

\* C3: in a call that names a cache file, a directory bound at decoration
\* is the directory used, a comment bound at decoration is the comment of
\* the file name (with autodetection off), and autodetection bound at
\* decoration is applied to the comment the call is configured with.
C3_PerOptionPrecedence ==
    LET c == last.call
    IN last.cachename # <<>> =>
          /\ Truthy(c.decor.cachedir) =>
                last.cachepath
                    = join(validated(fs, c.decor.cachedir.v), last.cachename)
          /\ (Truthy(c.decor.cache_comment) /\ ~DocumentedAutodetect(c)) =>
                /\ last.comment = c.decor.cache_comment
                /\ last.cachename = cachename_of(c.name, c.decor.cache_comment)
          /\ (Truthy(c.decor.autodetect) /\ last.fwd = NoKwargs) =>
                last.comment.v
                    = DocumentedComment(c).v \o Join(<<"_">>, StrArgs(c.args))

\* C4: a result json cannot encode makes the call raise and leaves no file
\* at the cache path; so every file holds the complete JSON text of the
\* result of the call that created it, and no hit fails to decode.
C4_SerializationFailureCachesNothing ==
    /\ (/\ last.branch = "miss"
        /\ last.call.fout.kind = "return"
        /\ ~Serializable(last.call.fout.val)) =>
          /\ last.out.kind = "raise"
          /\ LastPath \notin DOMAIN fs
    /\ \A p \in DOMAIN fs :
          /\ stored[p].call.fout.kind = "return"
          /\ Serializable(stored[p].call.fout.val)
          /\ fs[p] = Dumped(stored[p].call.fout.val)
          /\ loads(fs[p]).t # "ValueError"
    /\ last.branch = "hit" => last.out.kind = "return"

\* C5: when the method raises on a cache miss, the caller gets that same
\* exception after a single invocation and no file is at the cache path;
\* and as long as no file has been created there, a later call that derives
\* the same path is a miss again and invokes the method.
C5_ComputationFailureCachesNothing ==
    /\ (last.branch = "miss" /\ last.call.fout.kind = "raise") =>
          /\ last.out = last.call.fout
          /\ last.invoked = 1
          /\ LastPath \notin DOMAIN fs
          /\ LastPath \in failed
    /\ last.prefailed => (last.branch = "miss" /\ last.invoked = 1)

\* C5 witness: after a failure at a path, a later call at that path has
\* invoked the method again, which failed again.
C5_Witness ==
    /\ last.prefailed
    /\ last.branch = "miss"
    /\ last.invoked = 1
    /\ last.out = Raise(Boom)
    /\ fs = <<>>

\* C6: in every step, every file that exists keeps its content and stays,
\* and the only file that can appear is the cache file of the call made.
C6_WriteOnce ==
    [][/\ \A p \in DOMAIN fs : p \in DOMAIN fs' /\ fs'[p] = fs[p]
       /\ (DOMAIN fs' \ DOMAIN fs) \subseteq {Abs(last'.cachepath)}
       /\ (DOMAIN fs' # DOMAIN fs) => last'.branch = "miss"]_vars

\* C6 witness: a call other than the one that created the file was served
\* from it, and the file still holds what its creator dumped.
C6_Witness ==
    /\ last.branch = "hit"
    /\ LastPath \in DOMAIN fs
    /\ stored[LastPath].call # last.call
    /\ fs[LastPath] = Dumped(stored[LastPath].call.fout.val)

\* C7: when a call is configured with another comment than the call that
\* created a cache file (same method name, same cache directory, no
\* autodetection), it names a cache file of its own and is not served that
\* file.
C7_KeyUniquenessUnderComment ==
    LET c == last.call
    IN \A p \in DOMAIN stored :
          LET c0 == stored[p].call
          IN (/\ c0.name = c.name
              /\ ValidDir(c) /\ DocumentedDir(c0) = DocumentedDir(c)
              /\ ~DocumentedAutodetect(c0) /\ ~DocumentedAutodetect(c)
              /\ Truthy(DocumentedComment(c0)) /\ Truthy(DocumentedComment(c))
              /\ DocumentedComment(c0) # DocumentedComment(c)) =>
                /\ last.cachepath # <<>>
                /\ LastPath # p

\* The arguments the documentation says autodetection reads: the str
\* positional arguments and the str, int or float value of the method's
\* keyword.
Material(c) ==
    <<StrArgs(c.args),
      IF c.kwargs["k"].t \in {"str", "int", "float"} THEN c.kwargs["k"]
      ELSE Absent>>

\* The call passes no keyword but autodetect and the method's own.
PlainKeywords(c) ==
    c.kwargs["cachedir"] = Absent /\ c.kwargs["cache_comment"] = Absent

\* C8: with autodetection on, a call whose keyword value is a str, an int
\* or a float derives a cache file; and a call whose str/int/float
\* arguments differ from those of the call that created a cache file (same
\* method, directory and comment) derives another file than that one.
C8_AutodetectSensitivity ==
    LET c == last.call
    IN /\ (/\ last.branch # "none" /\ ValidDir(c) /\ DocumentedAutodetect(c)
           /\ PlainKeywords(c) /\ c.kwargs["autodetect"] = Absent
           /\ c.kwargs["k"].t \in {"str", "int", "float"}) =>
             last.cachepath # <<>>
       /\ \A p \in DOMAIN stored :
             LET c0 == stored[p].call
             IN (/\ c0.name = c.name /\ c0.decor = c.decor
                 /\ ValidDir(c) /\ DocumentedDir(c0) = DocumentedDir(c)
                 /\ DocumentedComment(c0) = DocumentedComment(c)
                 /\ DocumentedAutodetect(c0) /\ DocumentedAutodetect(c)
                 /\ PlainKeywords(c0) /\ PlainKeywords(c)
                 /\ Material(c0) # Material(c)) =>
                   LastPath # p

\* A value with a boolean replaced by one fixed boolean.
Unbool(x) == IF x.t = "bool" THEN True ELSE x

\* c1 and c2 are calls of one decorated method that differ in the values
\* of boolean arguments and in nothing else (the method's result aside).
DifferOnlyInBooleans(c1, c2) ==
    /\ c1.decor = c2.decor /\ c1.name = c2.name
    /\ c1.kwargs["cachedir"] = c2.kwargs["cachedir"]
    /\ c1.kwargs["cache_comment"] = c2.kwargs["cache_comment"]
    /\ c1.kwargs["autodetect"] = c2.kwargs["autodetect"]
    /\ Len(c1.args) = Len(c2.args)
    /\ \A i \in 1..Len(c1.args) : Unbool(c1.args[i]) = Unbool(c2.args[i])
    /\ Unbool(c1.kwargs["k"]) = Unbool(c2.kwargs["k"])
    /\ (c1.args # c2.args \/ c1.kwargs["k"] # c2.kwargs["k"])

\* C9: with autodetection on, a call with a boolean keyword value derives a
\* cache file; and a call that differs only in boolean values from the
\* call that created a cache file is a hit on that file.
C9_BooleansExcluded ==
    LET c == last.call
    IN /\ (/\ last.branch # "none" /\ ValidDir(c) /\ DocumentedAutodetect(c)
           /\ PlainKeywords(c) /\ c.kwargs["autodetect"] = Absent
           /\ c.kwargs["k"].t = "bool") =>
             last.cachepath # <<>>
       /\ \A p \in DOMAIN stored :
             LET c0 == stored[p].call
             IN (/\ DifferOnlyInBooleans(c0, c)
                 /\ ValidDir(c) /\ DocumentedAutodetect(c)) =>
                   (last.branch = "hit" /\ LastPath = p)

\* The comment of the latest call as the file name carries it.
LastSuffixedComment ==
    IF Truthy(last.comment) THEN <<"_">> \o last.comment.v ELSE <<>>

\* C10: the cache file name is <name>[_<comment>] with its leading and its
\* trailing punctuation removed, followed by .cache.gz.
C10_PunctuationStripping ==
    last.cachename # <<>> =>
        last.cachename
            = rstrip(lstrip(last.call.name \o LastSuffixedComment)) \o suffix

\* The keywords of a call without the decorator's three options.
WithoutOptions(kwargs) ==
    popped(popped(popped(kwargs, "cachedir"), "cache_comment"), "autodetect")

\* C11: when a call with a cache directory invokes the method, none of the
\* keywords cachedir, cache_comment and autodetect is among the keywords the
\* method receives, whether or not the option is bound at decoration, and
\* the method's own keyword is passed as the caller gave it.
C11_OptionsNeverForwarded ==
    LET c == last.call
    IN (last.branch = "miss" /\ last.invoked = 1) =>
          last.fwd = WithoutOptions(c.kwargs)

\* C12: a call that is given a cache directory (bound at decoration, else
\* the cachedir attribute of a first argument, else the cachedir keyword)
\* does not raise IndexError and does not bypass the cache, whatever the
\* number of positional arguments, and the cache file it names lies in that
\* directory.
C12_DirectoryResolutionOrder ==
    LET c == last.call
    IN (last.branch # "none" /\ Truthy(DocumentedDir(c))) =>
          /\ last.branch \notin {"index", "bypass"}
          /\ last.cachename # <<>> =>
                last.cachepath
                    = join(validated(fs, DocumentedDir(c).v), last.cachename)

\* C13: a call whose cache directory exists neither as given nor under the
\* working directory ends with exit status 1 (SystemExit) after the
\* diagnostic, without invoking the method and without creating a file.
C13_FatalPath ==
    [][LET c == last'.call
           d == cachedir_of(c.decor.cachedir, c.args, c.kwargs)
       IN (/\ d.t \in {"str", "unicode"} /\ Truthy(d)
           /\ ~exists(fs, d.v)
           /\ ~exists(fs, join(getcwd, d.v))) =>
             /\ last'.branch = "fatal"
             /\ last'.out = Raise(Exc("SystemExit"))
             /\ last'.invoked = 0
             /\ fs' = fs]_vars

\* The file at p cannot be decoded: json.loads raises on its text.
Corrupt(files, p) == p \in DOMAIN files /\ loads(files[p]).t = "ValueError"

\* C14: a file that cannot be decoded stays as it is in every step, and a
\* call that derives its path raises the decoder's ValueError without
\* invoking the method.
C14_CorruptEntriesPermanent ==
    [][\A p \in DOMAIN fs :
          Corrupt(fs, p) =>
             /\ p \in DOMAIN fs'
             /\ fs'[p] = fs[p]
             /\ (last'.cachepath # <<>> /\ Abs(last'.cachepath) = p) =>
                   /\ last'.branch = "hit"
                   /\ last'.out = Raise(Exc("ValueError"))
                   /\ last'.invoked = 0]_vars

\* C14 witness: a call was a hit on a file that cannot be decoded; it
\* raised ValueError, invoked nothing, and the file is still there, corrupt.
C14_Witness ==
    /\ last.branch = "hit"
    /\ last.out = Raise(Exc("ValueError"))
    /\ last.invoked = 0
    /\ last.call.fout.kind = "return"
    /\ Serializable(last.call.fout.val)
    /\ Corrupt(fs, LastPath)

\* The directory and the comment lines 70-86 resolve for a call.
ResolvedDir(c) == cachedir_of(c.decor.cachedir, c.args, c.kwargs)
ResolvedComment(c) ==
    cache_comment_of(c.decor.cachedir, c.decor.cache_comment, c.kwargs)

\* C15: with autodetection off, once a call has stored its result in a
\* file, every call of a method of that name that resolves the same
\* directory and the same comment, whatever its arguments and whatever its
\* method would do, is a hit on that file: it invokes nothing, writes
\* nothing and returns what the file holds, the JSON decoding of the result
\* of the call that created it.
C15_PathIgnoresArguments ==
    [][LET c == last'.call
       IN \A p \in DOMAIN stored :
             LET c0 == stored[p].call
             IN (/\ stored[p].out.kind = "return"
                 /\ c0.name = c.name
                 /\ ~DocumentedAutodetect(c0) /\ ~DocumentedAutodetect(c)
                 /\ ResolvedDir(c).t \in {"str", "unicode"}
                 /\ ResolvedDir(c) = ResolvedDir(c0)
                 /\ ResolvedComment(c) = ResolvedComment(c0)) =>
                   /\ last'.branch = "hit"
                   /\ Abs(last'.cachepath) = p
                   /\ last'.invoked = 0
                   /\ last'.out = Return(loads(Dumped(stored[p].out.val)))
                   /\ fs' = fs]_vars

\* C15 witness: a call with other positional arguments, another keyword of
\* the method and a method that would return something else was served the
\* result another call stored.
C15_Witness ==
    /\ last.branch = "hit"
    /\ last.invoked = 0
    /\ LastPath \in DOMAIN stored
    /\ stored[LastPath].call.args # last.call.args
    /\ stored[LastPath].call.args # <<>>
    /\ last.call.args # <<>>
    /\ stored[LastPath].call.kwargs["k"] # last.call.kwargs["k"]
    /\ stored[LastPath].call.fout # last.call.fout
    /\ last.call.fout.kind = "return"
    /\ last.out = stored[LastPath].out
    /\ last.out # last.call.fout

RECURSIVE IsPrefix(_, _)
\* s is a prefix of t.
IsPrefix(s, t) ==
    \/ s = <<>>
    \/ t # <<>> /\ s[1] = t[1] /\ IsPrefix(Tail(s), Tail(t))

\* C16: a call that found the cache file present and read it while another
\* call had the file open for writing did not get a result: it raised the
\* failure of reading an unfinished entry, without invoking its method.
C16_ConcurrentHazard ==
    \A r \in Threads :
        th[r].raced =>
            /\ th[r].pc = "done"
            /\ th[r].out.kind = "raise"
            /\ th[r].out.val.t \in {"ValueError", "IOError"}
            /\ th[r].invoked = 0

\* C16 witness: thread r has read the file of its call while thread w, with
\* the same cache file, had created it and written part of its entry: what
\* r found in the file is a proper prefix of what w is writing.
C16_Witness ==
    \E r, w \in Threads :
        /\ r # w
        /\ th[r].raced
        /\ th[r].pc = "done"
        /\ th[w].pc = "dump"
        /\ Abs(th[w].path) = Abs(th[r].path)
        /\ Serializable(th[w].fout.val)
        /\ th[r].seen = fs[Abs(th[r].path)]
        /\ th[r].seen # <<>>
        /\ th[r].seen # Dumped(th[w].fout.val)
        /\ IsPrefix(th[r].seen, Dumped(th[w].fout.val))

====
